---- MODULE Spec2Model ----
(***************************************************************************)
(* Model of bot.py: the catalog resolution engine and the slot-filling     *)
(* dialog of one chat (one context.user_data).  Handlers of one chat run   *)
(* one at a time, so every handler is one atomic action.                   *)
(*                                                                         *)
(* Text is a sequence of one-character strings.  Python's None is the      *)
(* string "None" for the string-valued slots.                              *)
(***************************************************************************)
EXTENDS Integers, Sequences, FiniteSets, TLC

None == "None"

(***************************************************************************)
(* CONFIG                                                                  *)
(***************************************************************************)

\* LANG_HINTS, in the dict's iteration (insertion) order: es, then en.
LANG_HINTS ==
  << [key |-> "es", hints |->
        {<<"e", "s">>,
         <<"s", "p", "a">>,
         <<"s", "p", "a", "n", "i", "s", "h">>,
         <<"e", "s", "p", "a", "ñ", "o", "l">>,
         <<"e", "s", "p", "a", "n", "o", "l">>,
         <<"c", "a", "s", "t", "e", "l", "l", "a", "n", "o">>,
         <<"s", "p", "a", "g", "n", "o", "l", "o">>}],
     [key |-> "en", hints |->
        {<<"e", "n">>,
         <<"e", "n", "g">>,
         <<"e", "n", "g", "l", "i", "s", "h">>,
         <<"i", "n", "g", "l", "e", "s", "e">>,
         <<"i", "n", "g", "l", "é", "s">>,
         <<"i", "n", "g", "l", "e", "s">>}] >>

\* VARIANT_HINTS, in the dict's iteration order: broker, then standard.
VARIANT_HINTS ==
  << [key |-> "broker", hints |->
        {<<"b", "r", "o", "k", "e", "r">>,
         <<"b", "f">>,
         <<"b", "r", "o", "k">>}],
     [key |-> "standard", hints |->
        {<<"s", "t", "a", "n", "d", "a", "r", "d">>,
         <<"s", "t", "d">>,
         <<"n", "o", "r", "m", "a", "l", "e">>}] >>

\* callback data prefixes
CB_UNIT == "UNIT:"
CB_LANG == "LANG:"
CB_VAR == "VAR:"
CB_CANCEL == "CANCEL"

(***************************************************************************)
(* Character classes of Python's str methods and re module, over the       *)
(* characters the model's texts use.  Any other character is neither a     *)
(* word character nor whitespace.                                          *)
(***************************************************************************)

UpperChars ==
  <<"A", "B", "C", "D", "E", "F", "G", "H", "I", "J", "K", "L", "M", "N",
    "O", "P", "Q", "R", "S", "T", "U", "V", "W", "X", "Y", "Z">>

LowerChars ==
  <<"a", "b", "c", "d", "e", "f", "g", "h", "i", "j", "k", "l", "m", "n",
    "o", "p", "q", "r", "s", "t", "u", "v", "w", "x", "y", "z">>

DigitChars == {"0", "1", "2", "3", "4", "5", "6", "7", "8", "9"}

Range(s) == {s[i] : i \in DOMAIN s}

\* \w : letters (accented ones too), digits and the underscore
IsWord(c) ==
  c \in Range(UpperChars) \cup Range(LowerChars) \cup DigitChars
        \cup {"_", "ñ", "é"}

\* \s, and what str.strip() and str.split() take for whitespace
IsSpace(c) == c \in {" ", "\t", "\n"}

\* \d
IsDigit(c) == c \in DigitChars

\* str.lower() of one character
LowerChar(c) ==
  IF \E i \in DOMAIN UpperChars : UpperChars[i] = c
  THEN LowerChars[CHOOSE i \in DOMAIN UpperChars : UpperChars[i] = c]
  ELSE c

\* str.lower()
Lower(s) == [i \in 1..Len(s) |-> LowerChar(s[i])]

RECURSIVE LStrip(_)
LStrip(s) ==
  IF s # <<>> /\ IsSpace(Head(s)) THEN LStrip(Tail(s)) ELSE s

RECURSIVE RStrip(_)
RStrip(s) ==
  IF s # <<>> /\ IsSpace(s[Len(s)]) THEN RStrip(SubSeq(s, 1, Len(s) - 1)) ELSE s

\* str.strip()
Strip(s) == RStrip(LStrip(s))

\* re.sub(r"[^\w\s#\.]", " ", text)
SubNoise(s) ==
  [i \in 1..Len(s) |->
     IF IsWord(s[i]) \/ IsSpace(s[i]) \/ s[i] \in {"#", "."} THEN s[i] ELSE " "]

\* re.sub(r"\s+", " ", text): every maximal run of whitespace becomes one space
RECURSIVE SubSpaces(_)
SubSpaces(s) ==
  IF s = <<>> THEN <<>>
  ELSE IF IsSpace(Head(s))
       THEN <<" ">> \o SubSpaces(LStrip(s))
       ELSE <<Head(s)>> \o SubSpaces(Tail(s))

(***************************************************************************)
(* NORMALIZE / DETECT                                                      *)
(***************************************************************************)

\* text.lower().strip() first, then the two substitutions (bot.py l.50-52)
normalize(text) == SubSpaces(SubNoise(Strip(Lower(text))))

\* str.split(): the maximal runs of non-whitespace characters, as a set
RECURSIVE SplitFrom(_, _)
SplitFrom(s, cur) ==
  IF s = <<>> THEN (IF cur = <<>> THEN {} ELSE {cur})
  ELSE IF IsSpace(Head(s))
       THEN (IF cur = <<>> THEN {} ELSE {cur}) \cup SplitFrom(Tail(s), <<>>)
       ELSE SplitFrom(Tail(s), Append(cur, Head(s)))

Tokens(s) == SplitFrom(s, <<>>)

\* the first key of an ordered hint table whose hints meet the tokens, or None
FirstHint(table, tokens) ==
  IF \E i \in DOMAIN table : table[i].hints \cap tokens # {}
  THEN table[CHOOSE i \in DOMAIN table :
               /\ table[i].hints \cap tokens # {}
               /\ \A j \in 1..(i - 1) : table[j].hints \cap tokens = {}].key
  ELSE None

detect_lang(query) == FirstHint(LANG_HINTS, Tokens(normalize(query)))

detect_variant(query) == FirstHint(VARIANT_HINTS, Tokens(normalize(query)))

\* UNIT_REF_REGEX = (#|unit|unidad|ordine|order|n\.?)\s*(\d{1,5}), IGNORECASE.
\* The alternatives of group 1 in the order the regex engine tries them
\* (the greedy n\.? tries "n." before "n").
UNIT_REF_REGEX ==
  << <<"#">>,
     <<"u", "n", "i", "t">>,
     <<"u", "n", "i", "d", "a", "d">>,
     <<"o", "r", "d", "i", "n", "e">>,
     <<"o", "r", "d", "e", "r">>,
     <<"n", ".">>,
     <<"n">> >>

\* the literal p matches s at position i, ignoring case
LiteralAt(s, i, p) ==
  /\ i + Len(p) - 1 <= Len(s)
  /\ \A k \in 1..Len(p) : LowerChar(s[i + k - 1]) = p[k]

\* \s* from position j: the position after the whitespace run
RECURSIVE SkipSpaces(_, _)
SkipSpaces(s, j) ==
  IF j <= Len(s) /\ IsSpace(s[j]) THEN SkipSpaces(s, j + 1) ELSE j

\* \d{1,5} from position j: the longest run of at most `most` digits (<<>>: no match)
RECURSIVE DigitsAt(_, _, _)
DigitsAt(s, j, most) ==
  IF most > 0 /\ j <= Len(s) /\ IsDigit(s[j])
  THEN <<s[j]>> \o DigitsAt(s, j + 1, most - 1)
  ELSE <<>>

MaxUnitDigits == 5

\* group 2 of a match of alternative a starting at position i, or <<>>
AltAt(s, i, a) ==
  IF LiteralAt(s, i, UNIT_REF_REGEX[a])
  THEN DigitsAt(s, SkipSpaces(s, i + Len(UNIT_REF_REGEX[a])), MaxUnitDigits)
  ELSE <<>>

\* group 2 of the match starting at position i by the first alternative from a
\* on that matches, or <<>>
RECURSIVE MatchFrom(_, _, _)
MatchFrom(s, i, a) ==
  IF a > Len(UNIT_REF_REGEX) THEN <<>>
  ELSE LET m == AltAt(s, i, a)
       IN  IF m # <<>> THEN m ELSE MatchFrom(s, i, a + 1)

MatchAt(s, i) == MatchFrom(s, i, 1)

\* group 2 of the leftmost match starting at position i or later, or <<>>
RECURSIVE SearchFrom(_, _)
SearchFrom(s, i) ==
  IF i > Len(s) THEN <<>>
  ELSE LET m == MatchAt(s, i)
       IN  IF m # <<>> THEN m ELSE SearchFrom(s, i + 1)

\* The unit slot and unit_ref values are texts; None and "" are both <<>>
\* (the code only ever tests them for truth).
NoUnit == <<>>

\* UNIT_REF_REGEX.search(query): group 2 of the leftmost match, or None
detect_unit_ref(query) ==
  LET m == SearchFrom(query, 1)
  IN  IF m # <<>> THEN m ELSE NoUnit

(***************************************************************************)
(* STATE                                                                   *)
(***************************************************************************)

VARIABLES
  CATALOG,     \* the list load_catalog() built at start-up
  user_data,   \* context.user_data of the chat: <<>>, or <<flow>> when it has "flow"
  keyboards,   \* the inline keyboards in the chat that still have their buttons
  last,        \* history: <<the last handled update, with the replies it sent>>
  trace,       \* history: the updates of the running dialog (see Traced)
  nin,         \* a text given to normalize
  nout         \* the results of normalize applied to nin, and to its own result

vars == <<CATALOG, user_data, keyboards, last, trace, nin, nout>>

(***************************************************************************)
(* The catalog (the rows of catalog.csv as load_catalog() keeps them).     *)
(***************************************************************************)

Item(brand, model, unit_ref, variant, lang, availability, delivery, url, keys_norm) ==
  [brand |-> brand, model |-> model, unit_ref |-> unit_ref, variant |-> variant,
   lang |-> lang, availability |-> availability, delivery |-> delivery,
   url |-> url, keys_norm |-> keys_norm]

P43Keys == <<"p43", "pardo p43">>
SO455Keys == <<"so455", "jeanneau so455">>

U126 == <<"1", "2", "6">>
U127 == <<"1", "2", "7">>
U12 == <<"1", "2">>

\* Two units of one model (the second one lacks es and broker, and has a
\* duplicated row), and a model with a single unit.
MainCatalog ==
  << Item("Pardo", "P43", U127, "standard", "en", "on_order", <<"0", "6">>, "u1", P43Keys),
     Item("Pardo", "P43", U126, "standard", "es", "in_stock", <<>>, "u2", P43Keys),
     Item("Pardo", "P43", U126, "broker", "en", "in_stock", <<>>, "u3", P43Keys),
     Item("Pardo", "P43", U127, "standard", "en", "on_order", <<"0", "6">>, "u4", P43Keys),
     Item("Jeanneau", "SO455", U12, "standard", "es", "in_stock", <<>>, "u5", SO455Keys),
     Item("Jeanneau", "SO455", U12, "standard", "en", "in_stock", <<>>, "u6", SO455Keys) >>

\* a catalog.csv with a header and no rows
EmptyCatalog == <<>>

BigUnits == 12

\* the unit_ref "1dd" of the i-th row of BigCatalog
UnitNo(i) ==
  LET digit == <<"0", "1", "2", "3", "4", "5", "6", "7", "8", "9">>
  IN  <<"1", digit[(i \div 10) + 1], digit[(i % 10) + 1]>>

\* One model with more units than ask_unit shows: the first three rows are not
\* in stock, every third row has a delivery date.
BigCatalog ==
  [i \in 1..BigUnits |->
     Item("Pardo", "P43", UnitNo(i), "standard", IF i % 2 = 0 THEN "es" ELSE "en",
          IF i <= 3 THEN "on_order" ELSE "in_stock",
          IF i % 3 = 0 THEN <<"0", "6">> ELSE <<>>, "b", P43Keys)]

Catalogs == {MainCatalog, EmptyCatalog, BigCatalog}

(***************************************************************************)
(* The texts users send.  rapidfuzz is a library: for each text the model  *)
(* carries the score fuzz.WRatio gives its normal form against each key.   *)
(***************************************************************************)

Scores(p43, pardo_p43, so455, jeanneau_so455) ==
  [k \in {"p43", "pardo p43", "so455", "jeanneau so455"} |->
     CASE k = "p43" -> p43
       [] k = "pardo p43" -> pardo_p43
       [] k = "so455" -> so455
       [] OTHER -> jeanneau_so455]

QUERIES ==
  << \* "Pardo P43"
     [text |-> <<"P", "a", "r", "d", "o", " ", "P", "4", "3">>,
      scores |-> Scores(90, 100, 30, 25)],
     \* "p43 #126 broker en"
     [text |-> <<"p", "4", "3", " ", "#", "1", "2", "6", " ",
                 "b", "r", "o", "k", "e", "r", " ", "e", "n">>,
      scores |-> Scores(90, 72, 20, 20)],
     \* "p43 #49"
     [text |-> <<"p", "4", "3", " ", "#", "4", "9">>,
      scores |-> Scores(90, 75, 30, 20)],
     \* "so455"
     [text |-> <<"s", "o", "4", "5", "5">>,
      scores |-> Scores(25, 30, 100, 90)],
     \* "p43 en"
     [text |-> <<"p", "4", "3", " ", "e", "n">>,
      scores |-> Scores(90, 80, 20, 20)],
     \* "xyz es"
     [text |-> <<"x", "y", "z", " ", "e", "s">>,
      scores |-> Scores(20, 15, 25, 30)],
     \* "p43 #49 broker en"
     [text |-> <<"p", "4", "3", " ", "#", "4", "9", " ",
                 "b", "r", "o", "k", "e", "r", " ", "e", "n">>,
      scores |-> Scores(90, 72, 20, 20)] >>

Texts == {QUERIES[i].text : i \in DOMAIN QUERIES}

(***************************************************************************)
(* MATCH MODEL                                                             *)
(*                                                                         *)
(* A function of the code is one operator named as in the code; where the  *)
(* code names an intermediate value and reads it more than once, the rest  *)
(* of the function is a second operator that takes the value as argument.  *)
(***************************************************************************)

\* the normal forms of the texts of QUERIES
NormalForms == [i \in DOMAIN QUERIES |-> normalize(QUERIES[i].text)]

\* fuzz.WRatio(qn, k): the library's score, 0..100
WRatio(qn, k) ==
  IF \E i \in DOMAIN QUERIES : NormalForms[i] = qn
  THEN QUERIES[CHOOSE i \in DOMAIN QUERIES : NormalForms[i] = qn].scores[k]
  ELSE 0

\* the index of the best of scores[i..], the first of them on a tie, given the
\* best index before i
RECURSIVE BestFrom(_, _, _)
BestFrom(scores, i, best) ==
  IF i > Len(scores) THEN best
  ELSE BestFrom(scores, i + 1, IF scores[i] > scores[best] THEN i ELSE best)

\* the result tuple of extractOne: (choice, score, index)
Hit(choices, scores, best) == <<choices[best], scores[best], best>>

BestHit(choices, scores) == Hit(choices, scores, BestFrom(scores, 2, 1))

\* process.extractOne(qn, choices, scorer=fuzz.WRatio): the best score, the first
\* of them on a tie; <<>> (None) without choices
extractOne(qn, choices) ==
  IF choices = <<>> THEN <<>>
  ELSE BestHit(choices, [i \in DOMAIN choices |-> WRatio(qn, choices[i])])

\* the (key, item) pairs in the order best_model_match appends them
RECURSIVE KeyPairs(_)
KeyPairs(catalog) ==
  IF catalog = <<>> THEN <<>>
  ELSE [k \in DOMAIN Head(catalog).keys_norm |->
          [choice |-> Head(catalog).keys_norm[k], item |-> Head(catalog)]]
       \o KeyPairs(Tail(catalog))

\* what best_model_match returns for a hit: (mapping[hit[2]], hit[1]), or (None, 0)
MatchOf(pairs, hit) ==
  IF hit = <<>> THEN [item |-> <<>>, score |-> 0]
  ELSE [item |-> <<pairs[hit[3]].item>>, score |-> hit[2]]

BestOf(pairs, qn) ==
  MatchOf(pairs, extractOne(qn, [i \in DOMAIN pairs |-> pairs[i].choice]))

best_model_match(query) == BestOf(KeyPairs(CATALOG), normalize(query))

MinScore == 70

\* [x for x in CATALOG if x["brand"] == ... and x["model"] == ...]
SameModel(base_item) ==
  LET Same(x) == x.brand = base_item.brand /\ x.model = base_item.model
  IN  SelectSeq(CATALOG, Same)

\* [x for x in cands if x["unit_ref"] == want_unit]
SameUnit(cands, want_unit) ==
  LET Same(x) == x.unit_ref = want_unit
  IN  SelectSeq(cands, Same)

\* a mutation of Narrowed: an empty filtered replaces cands too
Narrowed_to_empty(cands, want_unit, filtered) ==
  IF want_unit # NoUnit THEN filtered ELSE cands

\* cands = filtered, if want_unit and filtered
Narrowed(cands, want_unit, filtered) ==
  IF want_unit # NoUnit /\ filtered # <<>> THEN filtered ELSE cands

NarrowedFamily(cands, want_unit) ==
  Narrowed(cands, want_unit, SameUnit(cands, want_unit))

\* a mutation of Candidates: the score is not looked at
Candidates_any_score(want_unit, m) ==
  IF m.item = <<>> THEN [cands |-> <<>>, score |-> m.score]
  ELSE [cands |-> NarrowedFamily(SameModel(m.item[1]), want_unit), score |-> m.score]

\* candidates_for_query, given want_unit and (base_item, score)
Candidates(want_unit, m) ==
  IF m.item = <<>> \/ m.score < MinScore THEN [cands |-> <<>>, score |-> m.score]
  ELSE [cands |-> NarrowedFamily(SameModel(m.item[1]), want_unit), score |-> m.score]

candidates_for_query(query) ==
  Candidates(detect_unit_ref(query), best_model_match(query))

\* Code points, ascending, of the characters of the model's texts: str's order
CodePoints ==
  <<"\t", "\n", " ", "!", "#", "-", ".",
    "0", "1", "2", "3", "4", "5", "6", "7", "8", "9">>
  \o UpperChars \o <<"_">> \o LowerChars \o <<"é", "ñ">>

ord(c) == CHOOSE i \in DOMAIN CodePoints : CodePoints[i] = c

\* a < b for str
RECURSIVE StrLess(_, _)
StrLess(a, b) ==
  IF b = <<>> THEN FALSE
  ELSE IF a = <<>> THEN TRUE
  ELSE IF Head(a) = Head(b) THEN StrLess(Tail(a), Tail(b))
  ELSE ord(Head(a)) < ord(Head(b))

\* unit_rank(u), and the order of these tuples
unit_rank(u) ==
  [av_rank |-> IF u.availability = "in_stock" THEN 0 ELSE 1,
   delivery |-> u.delivery, unit_ref |-> u.unit_ref]

\* a mutation of RankLess: the availability is not looked at
RankLess_no_stock(r, t) ==
  \/ StrLess(r.delivery, t.delivery)
  \/ r.delivery = t.delivery /\ StrLess(r.unit_ref, t.unit_ref)

RankLess(r, t) ==
  \/ r.av_rank < t.av_rank
  \/ r.av_rank = t.av_rank /\ StrLess(r.delivery, t.delivery)
  \/ r.av_rank = t.av_rank /\ r.delivery = t.delivery /\ StrLess(r.unit_ref, t.unit_ref)

\* the row of S with the least rank
Least(S) == CHOOSE u \in S : \A v \in S \ {u} : RankLess(unit_rank(u), unit_rank(v))

\* sorted(...) of a set of rows whose ranks differ
RECURSIVE SortedByRank(_)

\* the row u of S first, then the others sorted
LeastFirst(u, S) == <<u>> \o SortedByRank(S \ {u})

SortedByRank(S) == IF S = {} THEN <<>> ELSE LeastFirst(Least(S), S)

\* units.setdefault(x["unit_ref"], x): the first row of each unit_ref
FirstRows(cands) ==
  {cands[i] : i \in {i \in DOMAIN cands :
      \A j \in 1..(i - 1) : cands[j].unit_ref # cands[i].unit_ref}}

unique_units(cands) == SortedByRank(FirstRows(cands))

\* the three filters of filter_doc
ByUnit(out, unit_ref) ==
  LET Same(x) == x.unit_ref = unit_ref
  IN  IF unit_ref # NoUnit THEN SelectSeq(out, Same) ELSE out

ByLang(out, lang) ==
  LET Same(x) == x.lang = lang
  IN  IF lang # None THEN SelectSeq(out, Same) ELSE out

ByVariant(out, variant) ==
  LET Same(x) == x.variant = variant
  IN  IF variant # None THEN SelectSeq(out, Same) ELSE out

filter_doc(cands, unit_ref, lang, variant) ==
  ByVariant(ByLang(ByUnit(cands, unit_ref), lang), variant)

(***************************************************************************)
(* Updates and replies.  A callback query carries the callback_data of a   *)
(* button: its prefix and the value after it.  A reply is a question with  *)
(* its buttons (AskChoice), the document (Deliver), a failure (Fail) or a  *)
(* plain acknowledgement (Info).                                           *)
(***************************************************************************)

Data(tag, unit, choice) == [tag |-> tag, unit |-> unit, choice |-> choice]

NoData == Data(None, NoUnit, None)

Reply(type, slot, choices, doc, reason) ==
  [type |-> type, slot |-> slot, choices |-> choices, doc |-> doc, reason |-> reason]

AskChoice(slot, choices) == Reply("AskChoice", slot, choices, <<>>, None)
Deliver(item) == Reply("Deliver", None, <<>>, <<item>>, None)
Fail(reason) == Reply("Fail", None, <<>>, <<>>, reason)
Info(reason) == Reply("Info", None, <<>>, <<>>, reason)

CancelButton == Data(CB_CANCEL, NoUnit, None)

(***************************************************************************)
(* INTERACTIVE FLOW                                                        *)
(***************************************************************************)

\* a mutation of reset_flow: the flow is kept
reset_flow_keep(ud) == ud

reset_flow(ud) == <<>>

ensure_flow(ud) ==
  IF ud = <<>>
  THEN << [query |-> <<>>, cands |-> <<>>, unit_ref |-> NoUnit,
           lang |-> None, variant |-> None, stage |-> None] >>
  ELSE ud

MaxUnitButtons == 10

\* a mutation of FirstUnits: every unit is shown
FirstUnits_all(units) == units

\* units[:10]
FirstUnits(units) ==
  SubSeq(units, 1, IF Len(units) < MaxUnitButtons THEN Len(units) ELSE MaxUnitButtons)

\* the buttons of ask_unit: one for each unit shown, then the cancel button
UnitButtons(shown) ==
  [i \in DOMAIN shown |-> Data(CB_UNIT, shown[i].unit_ref, None)] \o <<CancelButton>>

\* a mutation of UnitQuestion: a single unit is not written into the flow
UnitQuestion_no_fill(flow, units) ==
  IF Len(units) <= 1
  THEN [flow |-> flow, asked |-> FALSE, out |-> <<>>]
  ELSE [flow |-> [flow EXCEPT !.stage = "unit"], asked |-> TRUE,
        out |-> <<AskChoice("unit", UnitButtons(FirstUnits(units)))>>]

\* Each ask_* gives the flow as it leaves it, whether it asked, and its reply.
\* ask_unit, given units
UnitQuestion(flow, units) ==
  IF Len(units) <= 1
  THEN [flow |-> [flow EXCEPT !.unit_ref =
                    IF units # <<>> THEN units[1].unit_ref ELSE NoUnit],
        asked |-> FALSE, out |-> <<>>]
  ELSE [flow |-> [flow EXCEPT !.stage = "unit"], asked |-> TRUE,
        out |-> <<AskChoice("unit", UnitButtons(FirstUnits(units)))>>]

ask_unit(flow) == UnitQuestion(flow, unique_units(flow.cands))

\* a mutation of ask_lang: the language is asked, set or not
ask_lang_always(flow) ==
  [flow |-> [flow EXCEPT !.stage = "lang"], asked |-> TRUE,
   out |-> <<AskChoice("lang", <<Data(CB_LANG, NoUnit, "es"),
                                 Data(CB_LANG, NoUnit, "en"),
                                 CancelButton>>)>>]

ask_lang(flow) ==
  IF flow.lang # None
  THEN [flow |-> flow, asked |-> FALSE, out |-> <<>>]
  ELSE [flow |-> [flow EXCEPT !.stage = "lang"], asked |-> TRUE,
        out |-> <<AskChoice("lang", <<Data(CB_LANG, NoUnit, "es"),
                                      Data(CB_LANG, NoUnit, "en"),
                                      CancelButton>>)>>]

ask_variant(flow) ==
  IF flow.variant # None
  THEN [flow |-> flow, asked |-> FALSE, out |-> <<>>]
  ELSE [flow |-> [flow EXCEPT !.stage = "variant"], asked |-> TRUE,
        out |-> <<AskChoice("variant", <<Data(CB_VAR, NoUnit, "standard"),
                                         Data(CB_VAR, NoUnit, "broker"),
                                         CancelButton>>)>>]

\* the fallbacks of finalize_and_send, each given the docs found so far:
\* same unit and language, any variant
Fallback1(flow, docs) ==
  IF docs = <<>> /\ flow.lang # None /\ flow.variant # None
  THEN filter_doc(flow.cands, flow.unit_ref, flow.lang, None) ELSE docs

Fallback2(flow, docs) ==
  IF docs = <<>> /\ flow.lang # None
  THEN filter_doc(flow.cands, flow.unit_ref, flow.lang, None) ELSE docs

\* a mutation of Fallback3: the last fallback drops the unit too
Fallback3_any_unit(flow, docs) ==
  IF docs = <<>> THEN filter_doc(flow.cands, NoUnit, None, None) ELSE docs

Fallback3(flow, docs) ==
  IF docs = <<>> THEN filter_doc(flow.cands, flow.unit_ref, None, None) ELSE docs

\* the docs finalize_and_send ends with
final_docs(flow) ==
  Fallback3(flow, Fallback2(flow, Fallback1(flow,
    filter_doc(flow.cands, flow.unit_ref, flow.lang, flow.variant))))

\* a mutation of Send: the last of docs is sent
Send_last(ud, docs) ==
  IF docs = <<>>
  THEN [ud |-> reset_flow(ud), out |-> <<Fail("NoDocument")>>]
  ELSE [ud |-> reset_flow(ud), out |-> <<Deliver(docs[Len(docs)])>>]

\* Each handler gives the user_data it leaves and the replies it sent.
\* finalize_and_send, given docs
Send(ud, docs) ==
  IF docs = <<>>
  THEN [ud |-> reset_flow(ud), out |-> <<Fail("NoDocument")>>]
  ELSE [ud |-> reset_flow(ud), out |-> <<Deliver(docs[1])>>]

finalize_and_send(ud, flow) == Send(ud, final_docs(flow))

\* a mutation of Asked: the question is not sent
Asked_silent(a) == [ud |-> <<a.flow>>, out |-> <<>>]

\* a handler returns after a question was asked
Asked(a) == [ud |-> <<a.flow>>, out |-> a.out]

\* run_flow 3) and 4): the variant, then the document
AfterVariant(a) == IF a.asked THEN Asked(a) ELSE finalize_and_send(<<a.flow>>, a.flow)

\* run_flow 2) and on: the language
AfterLang(a) == IF a.asked THEN Asked(a) ELSE AfterVariant(ask_variant(a.flow))

\* run_flow 1) and on: the unit, if needed
AfterUnit(a) == IF a.asked THEN Asked(a) ELSE AfterLang(ask_lang(a.flow))

FromUnit(flow) ==
  IF flow.unit_ref = NoUnit THEN AfterUnit(ask_unit(flow)) ELSE AfterLang(ask_lang(flow))

\* a mutation of Preset: what the detectors give is stored, found or not
Preset_overwrite(flow, query, lang, variant, unit) ==
  [flow EXCEPT !.query = query, !.lang = lang, !.variant = variant, !.unit_ref = unit]

\* run_flow, given the detected preferences: the flow after the pre-set
Preset(flow, query, lang, variant, unit) ==
  [flow EXCEPT !.query = query,
               !.lang = IF lang # None THEN lang ELSE flow.lang,
               !.variant = IF variant # None THEN variant ELSE flow.variant,
               !.unit_ref = IF unit # NoUnit THEN unit ELSE flow.unit_ref]

prefill(flow, query) ==
  Preset(flow, query, detect_lang(query), detect_variant(query), detect_unit_ref(query))

\* run_flow, given the flow after the pre-set and (cands, score)
Resolved(flow, c) ==
  IF c.cands = <<>>
  THEN [ud |-> reset_flow(<<flow>>), out |-> <<Fail("NoCandidate")>>]
  ELSE FromUnit([flow EXCEPT !.cands = c.cands])

run_flow(ud, query) ==
  Resolved(prefill(ensure_flow(ud)[1], query), candidates_for_query(query))

(***************************************************************************)
(* TELEGRAM HANDLERS                                                       *)
(***************************************************************************)

start(ud) == [ud |-> reset_flow(ud), out |-> <<Info("start")>>]

cancel(ud) == [ud |-> reset_flow(ud), out |-> <<Info("cancelled")>>]

handle_text(ud, text) == run_flow(ud, Strip(text))

\* the acknowledgement (edit_message_text), then what the rest of the branch did
Acked(what, r) == [ud |-> r.ud, out |-> <<Info(what)>> \o r.out]

\* a mutation of Once: the candidates are read from the catalog again
Once_requery(a) == [ud |-> <<[a.flow EXCEPT !.cands = CATALOG]>>, out |-> a.out]

\* the unit and language branches end after their single ask_*, asked or not
Once(a) == [ud |-> <<a.flow>>, out |-> a.out]

\* handle_callback, given the flow
Chosen(flow, data) ==
  CASE data.tag = CB_CANCEL ->
         [ud |-> reset_flow(<<flow>>), out |-> <<Info("cancelled")>>]
    [] data.tag = CB_UNIT ->
         Acked("unit", Once(ask_lang([flow EXCEPT !.unit_ref = data.unit])))
    [] data.tag = CB_LANG ->
         Acked("lang", Once(ask_variant([flow EXCEPT !.lang = data.choice])))
    [] data.tag = CB_VAR ->
         Acked("variant", finalize_and_send(<<flow>>, [flow EXCEPT !.variant = data.choice]))
    [] OTHER -> [ud |-> <<flow>>, out |-> <<>>]

handle_callback(ud, data) == Chosen(ensure_flow(ud)[1], data)

(***************************************************************************)
(* THE STATE MACHINE                                                       *)
(***************************************************************************)

Ev(kind, text, data) == [kind |-> kind, text |-> text, data |-> data]

\* an update as the history keeps it: the update, whether the chat had no flow
\* before it, and the replies
Handled(ev, r) == [ev |-> ev, fresh |-> (user_data = <<>>), out |-> r.out]

\* the keyboards of the questions among some replies
KeyboardsOf(out) == {out[i].choices : i \in {i \in DOMAIN out : out[i].type = "AskChoice"}}

\* trace follows a dialog that goes as asked: it starts with a text that finds
\* candidates and goes on with each press on a value button of the question the
\* update before it asked; any other update empties it.
Traced(kb, data) ==
  /\ trace # <<>>
  /\ kb \in KeyboardsOf(trace[Len(trace)].out)
  /\ data.tag # CB_CANCEL

Init ==
  /\ CATALOG \in Catalogs
  /\ user_data = <<>>
  /\ keyboards = {}
  /\ last = <<>>
  /\ trace = <<>>
  /\ nin = <<>>
  /\ nout = <<>>

\* a text message (MessageHandler, handle_text)
HandleText(text) ==
  \E r \in {handle_text(user_data, text)} :
    /\ user_data' = r.ud
    /\ keyboards' = keyboards \cup KeyboardsOf(r.out)
    /\ last' = <<Handled(Ev("text", text, NoData), r)>>
    /\ trace' = IF r.out # <<Fail("NoCandidate")>> THEN last' ELSE <<>>
    /\ UNCHANGED <<CATALOG, nin, nout>>

\* a press on a button of a keyboard that is still shown (CallbackQueryHandler,
\* handle_callback); edit_message_text takes the keyboard off its message
HandleCallback(kb, data) ==
  \E r \in {handle_callback(user_data, data)} :
    /\ user_data' = r.ud
    /\ keyboards' = (keyboards \ {kb}) \cup KeyboardsOf(r.out)
    /\ last' = <<Handled(Ev("callback", <<>>, data), r)>>
    /\ trace' = IF Traced(kb, data) THEN trace \o last' ELSE <<>>
    /\ UNCHANGED <<CATALOG, nin, nout>>

\* /start
Start ==
  \E r \in {start(user_data)} :
    /\ user_data' = r.ud
    /\ last' = <<Handled(Ev("start", <<>>, NoData), r)>>
    /\ trace' = <<>>
    /\ UNCHANGED <<CATALOG, keyboards, nin, nout>>

\* /cancel
Cancel ==
  \E r \in {cancel(user_data)} :
    /\ user_data' = r.ud
    /\ last' = <<Handled(Ev("cancel", <<>>, NoData), r)>>
    /\ trace' = <<>>
    /\ UNCHANGED <<CATALOG, keyboards, nin, nout>>

Next ==
  \/ \E text \in Texts : HandleText(text)
  \/ \E kb \in keyboards : \E i \in DOMAIN kb : HandleCallback(kb, kb[i])
  \/ Start
  \/ Cancel

Spec == Init /\ [][Next]_vars

(***************************************************************************)
(* normalize on its own: applied to a text, then to its own result.        *)
(***************************************************************************)

MaxLen == 3

NormChars == {"a", "B", " ", "\t", "!", "#", "."}

TextsUpTo(n) == UNION {[1..k -> NormChars] : k \in 0..n}

InitNorm ==
  /\ CATALOG = EmptyCatalog
  /\ user_data = <<>>
  /\ keyboards = {}
  /\ last = <<>>
  /\ trace = <<>>
  /\ nin \in TextsUpTo(MaxLen)
  /\ nout = <<>>

MaxApply == 2

ApplyNormalize ==
  /\ Len(nout) < MaxApply
  /\ nout' = Append(nout, normalize(IF nout = <<>> THEN nin ELSE nout[Len(nout)]))
  /\ UNCHANGED <<CATALOG, user_data, keyboards, last, trace, nin>>

NextNorm == ApplyNormalize

SpecNorm == InitNorm /\ [][NextNorm]_vars

(***************************************************************************)
(* unique_units on its own: applied to a sequence of catalog rows.         *)
(***************************************************************************)

MaxCands == 3

\* a row of one model, as load_catalog builds it
UnitRow(unit_ref, availability, delivery) ==
  Item("Pardo", "P43", unit_ref, "standard", "es", availability, delivery, "u", P43Keys)

\* rows of three units ("10" < "2" < "9" as str), in stock or not, with and
\* without a delivery date
RowPool ==
  {UnitRow(u, a, d) : u \in {<<"2">>, <<"1", "0">>, <<"9">>},
                      a \in {"in_stock", "on_order"},
                      d \in {<<>>, <<"0", "6">>}}

CandsUpTo(n) == UNION {[1..k -> RowPool] : k \in 0..n}

InitUnits ==
  /\ CATALOG = EmptyCatalog
  /\ user_data = <<>>
  /\ keyboards = {}
  /\ last = <<>>
  /\ trace = <<>>
  /\ nin \in CandsUpTo(MaxCands)
  /\ nout = <<>>

ApplyUniqueUnits ==
  /\ nout = <<>>
  /\ nout' = <<unique_units(nin)>>
  /\ UNCHANGED <<CATALOG, user_data, keyboards, last, trace, nin>>

NextUnits == ApplyUniqueUnits

SpecUnits == InitUnits /\ [][NextUnits]_vars

(***************************************************************************)
(* PROPERTIES                                                              *)
(***************************************************************************)

\* the slot a value button answers
SlotOf(tag) ==
  CASE tag = CB_UNIT -> "unit"
    [] tag = CB_LANG -> "lang"
    [] tag = CB_VAR -> "variant"
    [] OTHER -> None

\* the AskChoice, Deliver and Fail among some replies, in order
Outbound(out) ==
  LET IsOutbound(r) == r.type \in {"AskChoice", "Deliver", "Fail"}
  IN  SelectSeq(out, IsOutbound)

LastIs(kind) == last # <<>> /\ last[1].ev.kind = kind

\* the query run_flow got from the last text message
LastQuery == Strip(last[1].ev.text)

\* the slots after `slot`, in the order of evaluation, that flow f leaves unfilled
LaterUnfilled(f, slot) ==
  LET IsLater(t) ==
        \/ slot = "unit" /\ t = "lang" /\ f.lang = None
        \/ slot \in {"unit", "lang"} /\ t = "variant" /\ f.variant = None
  IN  SelectSeq(<<"lang", "variant">>, IsLater)

\* flow f with the value of the button stored in its slot
Stored(f, data) ==
  CASE data.tag = CB_UNIT -> [f EXCEPT !.unit_ref = data.unit]
    [] data.tag = CB_LANG -> [f EXCEPT !.lang = data.choice]
    [] data.tag = CB_VAR -> [f EXCEPT !.variant = data.choice]
    [] OTHER -> f

\* C1, one step: a press on a value button of the question asked last (the slot
\* the flow awaits) stores the value, then asks the first later slot that is
\* still unfilled or, when there is none, finalizes (Deliver or Fail, flow gone).
C1_Step ==
  (/\ last' # <<>>
   /\ last'[1].ev.kind = "callback"
   /\ Len(trace') > 1
   /\ user_data # <<>>)
  => LET d == last'[1].ev.data
         f == Stored(user_data[1], d)
         later == LaterUnfilled(f, SlotOf(d.tag))
         out == Outbound(last'[1].out)
     IN  /\ user_data[1].stage = SlotOf(d.tag)
         /\ Len(out) = 1
         /\ IF later # <<>>
            THEN /\ out[1].type = "AskChoice"
                 /\ out[1].slot = later[1]
                 /\ user_data' = <<[f EXCEPT !.stage = later[1]]>>
            ELSE /\ out[1].type \in {"Deliver", "Fail"}
                 /\ user_data' = <<>>

\* C1: every answer to the awaited question continues slot evaluation from the
\* next slot through all the remaining slots: it ends by asking the first later
\* unfilled slot, or by finalizing when no later slot is unfilled.
C1_AnswerContinues == [][C1_Step]_vars

\* the rows of the catalog with the brand and model of the best match of a query
Family(query) ==
  LET m == best_model_match(query)
      InFamily(x) == x.brand = m.item[1].brand /\ x.model = m.item[1].model
  IN  IF m.item = <<>> THEN <<>> ELSE SelectSeq(CATALOG, InFamily)

\* the best match of a query is accepted
Accepted(query) ==
  LET m == best_model_match(query)
  IN  m.item # <<>> /\ m.score >= MinScore

UnitRefs(cands) == {cands[i].unit_ref : i \in DOMAIN cands}

\* the last update was a text with a unit reference that no row of the matched
\* family has
ScenarioC ==
  /\ LastIs("text")
  /\ Accepted(LastQuery)
  /\ detect_unit_ref(LastQuery) # NoUnit
  /\ detect_unit_ref(LastQuery) \notin UnitRefs(Family(LastQuery))

\* C2: a query with a unit reference that no row of the matched family has gets
\* the whole family as its candidates and, when the family has more than one
\* unit, is answered by the unit question, before any other question or result.
C2_UnknownUnitAsksUnit ==
  ScenarioC =>
    /\ candidates_for_query(LastQuery).cands = Family(LastQuery)
    /\ Cardinality(UnitRefs(Family(LastQuery))) > 1 =>
         /\ Len(Outbound(last[1].out)) = 1
         /\ Outbound(last[1].out)[1].type = "AskChoice"
         /\ Outbound(last[1].out)[1].slot = "unit"
         /\ user_data # <<>>
         /\ user_data[1].cands = Family(LastQuery)
         /\ user_data[1].stage = "unit"

\* C3, one step: an update answered by "no document" is a press that finalized a
\* flow with no candidates (a text finalizes only with candidates)
C3_Step ==
  (last' # <<>> /\ Fail("NoDocument") \in Range(last'[1].out))
  => /\ last'[1].ev.kind = "callback"
     /\ ensure_flow(user_data)[1].cands = <<>>

\* C3: with a non-empty candidate set finalize always gives a document, whatever
\* the slots hold (a unit no candidate has included): NoMatch only with no
\* candidates at all.
C3_DocumentWheneverCandidates == [][C3_Step]_vars

\* C4, one step: a press on a value button of a slot that the flow does not await
\* (no flow at all included) leaves user_data as it was and sends no question,
\* document or failure.
C4_Step ==
  (/\ last' # <<>>
   /\ last'[1].ev.kind = "callback"
   /\ last'[1].ev.data.tag # CB_CANCEL
   /\ \/ user_data = <<>>
      \/ user_data[1].stage # SlotOf(last'[1].ev.data.tag))
  => /\ user_data' = user_data
     /\ Outbound(last'[1].out) = <<>>

\* C4: an answer for a slot that is not the awaited one is rejected: the session
\* is what it was, and nothing is asked, delivered or failed.
C4_UnawaitedAnswerRejected == [][C4_Step]_vars

\* the last update of the running dialog left a question to answer
QuestionOutstanding ==
  /\ user_data # <<>>
  /\ KeyboardsOf(trace[Len(trace)].out) # {}
  /\ KeyboardsOf(trace[Len(trace)].out) \subseteq keyboards

\* the last update of the running dialog finalized it
Finalized ==
  /\ user_data = <<>>
  /\ \E i \in DOMAIN trace[Len(trace)].out :
       trace[Len(trace)].out[i].type \in {"Deliver", "Fail"}

\* C5: a dialog that a query with candidates started and in which every update
\* since was an answer to the question asked never hangs: either a question is
\* there to answer or the dialog has finalized and the session is cleared.
C5_DialogNeverHangs == trace # <<>> => (QuestionOutstanding \/ Finalized)

\* an update that ends a flow: a cancel (command or button), or one answered
\* by a document or a failure
Clears(h) ==
  \/ h.ev.kind = "cancel"
  \/ h.ev.kind = "callback" /\ h.ev.data.tag = CB_CANCEL
  \/ \E i \in DOMAIN h.out : h.out[i].type \in {"Deliver", "Fail"}

\* C6, the state after an update that ends a flow: no flow, and nothing asked
C6_Cleared ==
  (last # <<>> /\ Clears(last[1]))
  => /\ user_data = <<>>
     /\ KeyboardsOf(last[1].out) = {}

\* C6, the text that comes next: the flow it leaves holds the query, the
\* language and variant its own text names (None otherwise) and the unit its
\* text names, or else the only unit of its candidates, or else none; it asks
\* only for a slot that its text does not name
C6_Step ==
  (/\ last # <<>>
   /\ Clears(last[1])
   /\ last' # <<>>
   /\ last'[1].ev.kind = "text")
  => LET q == Strip(last'[1].ev.text)
         units == UnitRefs(Family(q))
         asks == Outbound(last'[1].out)
     IN  /\ last'[1].fresh
         /\ Len(asks) = 1
         /\ user_data' # <<>> =>
              /\ user_data'[1].query = q
              /\ user_data'[1].lang = detect_lang(q)
              /\ user_data'[1].variant = detect_variant(q)
              /\ user_data'[1].unit_ref =
                   IF detect_unit_ref(q) # NoUnit THEN detect_unit_ref(q)
                   ELSE IF Cardinality(units) = 1 THEN CHOOSE u \in units : TRUE
                   ELSE NoUnit
              /\ asks[1].type = "AskChoice"
              /\ asks[1].slot = user_data'[1].stage
              /\ asks[1].slot = "unit" => detect_unit_ref(q) = NoUnit
              /\ asks[1].slot = "lang" => detect_lang(q) = None
              /\ asks[1].slot = "variant" => detect_variant(q) = None

\* C6: a cancel (command or button), a finalize and a no-candidate failure clear
\* the session, and the query that comes next starts a fresh flow: its slots hold
\* only what its own text (and its own candidates) give, nothing of the old flow.
C6_FreshAfterClear == []C6_Cleared /\ [][C6_Step]_vars

\* C6 witness: a query got a fresh flow while the keyboard of an older, cleared
\* flow is still in the chat
C6_Witness ==
  /\ LastIs("text")
  /\ last[1].fresh
  /\ user_data # <<>>
  /\ Cardinality(keyboards) >= 2

\* C7: normalize(normalize(x)) = normalize(x)
C7_NormalizeIdempotent == Len(nout) = MaxApply => nout[2] = nout[1]

\* the last update was a text that names a unit, a language and a variant and
\* that has candidates
ScenarioB ==
  /\ LastIs("text")
  /\ detect_unit_ref(LastQuery) # NoUnit
  /\ detect_lang(LastQuery) # None
  /\ detect_variant(LastQuery) # None
  /\ candidates_for_query(LastQuery).cands # <<>>

\* the first row the chain of ever looser filters gives: unit, language and
\* variant; unit and language; unit; no filter
ClosestDoc(cands, unit, lang, variant) ==
  LET Exact(x) == x.unit_ref = unit /\ x.lang = lang /\ x.variant = variant
      UnitLang(x) == x.unit_ref = unit /\ x.lang = lang
      Unit(x) == x.unit_ref = unit
  IN  IF SelectSeq(cands, Exact) # <<>> THEN SelectSeq(cands, Exact)[1]
      ELSE IF SelectSeq(cands, UnitLang) # <<>> THEN SelectSeq(cands, UnitLang)[1]
      ELSE IF SelectSeq(cands, Unit) # <<>> THEN SelectSeq(cands, Unit)[1]
      ELSE cands[1]

\* C8: a query that names unit, language and variant and has candidates is
\* answered without any question by the document of that unit, language and
\* variant, or the closest fallback; the flow is gone.
C8_AllNamedDelivers ==
  ScenarioB =>
    /\ user_data = <<>>
    /\ Outbound(last[1].out) =
         <<Deliver(ClosestDoc(candidates_for_query(LastQuery).cands,
                              detect_unit_ref(LastQuery), detect_lang(LastQuery),
                              detect_variant(LastQuery)))>>

\* the running dialog began, with no flow in the chat, by a text that names no
\* unit, language or variant and whose family has exactly one unit
ScenarioA ==
  /\ trace # <<>>
  /\ trace[1].fresh
  /\ LET q == Strip(trace[1].ev.text)
     IN  /\ detect_unit_ref(q) = NoUnit
         /\ detect_lang(q) = None
         /\ detect_variant(q) = None
         /\ Accepted(q)
         /\ Cardinality(UnitRefs(Family(q))) = 1

\* C9: in scenario A the unit is filled with the only unit without a question,
\* and the outbound events are, in order: the language question, after the
\* language answer the variant question, after the variant answer the delivery
\* of a document of that unit.
C9_ScenarioA ==
  ScenarioA =>
    LET unit == CHOOSE u \in UnitRefs(Family(Strip(trace[1].ev.text))) : TRUE
        out(i) == Outbound(trace[i].out)
    IN  /\ Len(trace) <= 3
        /\ Len(out(1)) = 1 /\ out(1)[1].type = "AskChoice" /\ out(1)[1].slot = "lang"
        /\ Len(trace) < 3 => /\ user_data # <<>>
                             /\ user_data[1].unit_ref = unit
        /\ Len(trace) >= 2 =>
             /\ trace[2].ev.data.tag = CB_LANG
             /\ Len(out(2)) = 1 /\ out(2)[1].type = "AskChoice"
             /\ out(2)[1].slot = "variant"
        /\ Len(trace) = 3 =>
             /\ trace[3].ev.data.tag = CB_VAR
             /\ Len(out(3)) = 1 /\ out(3)[1].type = "Deliver"
             /\ out(3)[1].doc[1].unit_ref = unit
             /\ user_data = <<>>

\* C9 witness: scenario A was played to the end
C9_Witness == ScenarioA /\ Len(trace) = 3

\* C10: a query whose best match is missing or scores under 70 is answered by
\* the failure alone, with no question, and leaves no flow, so that nothing of
\* what its text named survives.
C10_NoCandidateResets ==
  (LastIs("text") /\ ~Accepted(LastQuery))
  => /\ last[1].out = <<Fail("NoCandidate")>>
     /\ user_data = <<>>

\* C10 witness: such a query named a language and came while the chat had a flow
C10_Witness ==
  /\ LastIs("text")
  /\ ~Accepted(LastQuery)
  /\ CATALOG # <<>>
  /\ detect_lang(LastQuery) # None
  /\ ~last[1].fresh

\* the first row of cands with a unit_ref
FirstOf(cands, unit_ref) ==
  cands[CHOOSE i \in DOMAIN cands :
          /\ cands[i].unit_ref = unit_ref
          /\ \A j \in 1..(i - 1) : cands[j].unit_ref # unit_ref]

\* row a comes before row b by the composite key: in_stock first, then the
\* delivery string, then the unit_ref
KeyBefore(a, b) ==
  LET stock(x) == IF x.availability = "in_stock" THEN 0 ELSE 1
  IN  \/ stock(a) < stock(b)
      \/ stock(a) = stock(b) /\ StrLess(a.delivery, b.delivery)
      \/ stock(a) = stock(b) /\ a.delivery = b.delivery /\ StrLess(a.unit_ref, b.unit_ref)

\* C11: unique_units(cands) has exactly one entry for each unit_ref of cands, the
\* first row of cands with that unit_ref, never two entries of one unit_ref; the
\* entries are in the order of the composite key, so that every in_stock entry
\* comes before every entry that is not in_stock.
C11_UniqueUnitsOrdered ==
  nout # <<>> =>
    LET units == nout[1]
    IN  /\ {units[i].unit_ref : i \in DOMAIN units} = UnitRefs(nin)
        /\ \A i, j \in DOMAIN units : units[i].unit_ref = units[j].unit_ref => i = j
        /\ \A i \in DOMAIN units : units[i] = FirstOf(nin, units[i].unit_ref)
        /\ \A i, j \in DOMAIN units : i < j => KeyBefore(units[i], units[j])
        /\ \A i, j \in DOMAIN units :
             (units[i].availability # "in_stock" /\ units[j].availability = "in_stock")
             => j < i

\* C11 witness: the input gave one unit twice, by two different rows of which
\* the first is not in stock, with an in_stock row of another unit between them
C11_Witness ==
  /\ nout # <<>>
  /\ Len(nin) = 3
  /\ Len(nout[1]) = 2
  /\ nin[1].unit_ref = nin[3].unit_ref
  /\ nin[1] # nin[3]
  /\ nin[1].availability # "in_stock"
  /\ nin[2].availability = "in_stock"

\* the rows of the matched family with the unit_ref the query names
ExactUnit(query) ==
  LET Named(x) == x.unit_ref = detect_unit_ref(query)
  IN  SelectSeq(Family(query), Named)

\* C12: for a query whose best match scores 70 or more, candidates_for_query
\* gives a non-empty sequence of catalog rows, in catalog order, that all have the
\* brand and model of the best match: the rows of the family with the unit_ref
\* the query names if there are any, else the whole family; for a lower score or
\* an empty catalog it gives the empty sequence.  The flow holds that sequence.
C12_ResolveFamily ==
  LastIs("text") =>
    LET m == best_model_match(LastQuery)
        cands == candidates_for_query(LastQuery).cands
    IN  IF m.item # <<>> /\ m.score >= MinScore
        THEN /\ cands # <<>>
             /\ \A i \in DOMAIN cands : /\ cands[i].brand = m.item[1].brand
                                         /\ cands[i].model = m.item[1].model
             /\ cands = IF detect_unit_ref(LastQuery) # NoUnit /\ ExactUnit(LastQuery) # <<>>
                        THEN ExactUnit(LastQuery)
                        ELSE Family(LastQuery)
             /\ user_data # <<>> => user_data[1].cands = cands
        ELSE /\ cands = <<>>
             /\ user_data = <<>>

\* C12 witness: a query named a unit that some, not all, rows of its family have
C12_Witness ==
  /\ LastIs("text")
  /\ Accepted(LastQuery)
  /\ ExactUnit(LastQuery) # <<>>
  /\ Len(ExactUnit(LastQuery)) < Len(Family(LastQuery))

\* the unit questions among the replies to the last update
UnitAsks ==
  LET IsUnitAsk(r) == r.type = "AskChoice" /\ r.slot = "unit"
  IN  IF last = <<>> THEN <<>> ELSE SelectSeq(last[1].out, IsUnitAsk)

\* C13: every unit question offers at most 10 units, namely the first min(10, n)
\* of the n entries of unique_units of the flow's candidates, in that order, and
\* after them the cancel choice; it is asked only when n > 1.
C13_UnitChoicesCapped ==
  \A a \in DOMAIN UnitAsks :
    /\ user_data # <<>>
    /\ LET units == unique_units(user_data[1].cands)
           shown == IF Len(units) < 10 THEN Len(units) ELSE 10
           choices == UnitAsks[a].choices
       IN  /\ Len(units) > 1
           /\ Len(choices) = shown + 1
           /\ \A i \in 1..shown : choices[i] = Data(CB_UNIT, units[i].unit_ref, None)
           /\ choices[shown + 1] = CancelButton

\* C13 witness: a unit question for candidates of more than 10 units
C13_Witness ==
  /\ UnitAsks # <<>>
  /\ user_data # <<>>
  /\ Len(unique_units(user_data[1].cands)) > 10

\* the documents among some replies
Delivered(out) ==
  LET IsDeliver(r) == r.type = "Deliver"
  IN  SelectSeq(out, IsDeliver)

\* The flow as finalize_and_send sees it in an update that finalizes, given the
\* user_data before the update.  A press: the flow with the value stored.  A
\* text: the flow after the pre-set, with the candidates of the query and, when
\* no unit is set, the only unit of the candidates.
FlowAtFinalize(ud, ev) ==
  IF ev.kind = "callback" THEN Stored(ensure_flow(ud)[1], ev.data)
  ELSE LET p == prefill(ensure_flow(ud)[1], Strip(ev.text))
           c == candidates_for_query(Strip(ev.text)).cands
       IN  [p EXCEPT !.cands = c,
                     !.unit_ref = IF p.unit_ref # NoUnit THEN p.unit_ref
                                  ELSE IF Cardinality(UnitRefs(c)) = 1
                                       THEN CHOOSE u \in UnitRefs(c) : TRUE
                                       ELSE NoUnit]

\* the candidates of flow f that pass the filter by its unit and, as asked, by
\* its language and its variant (an unset slot filters nothing)
Passing(f, by_lang, by_variant) ==
  LET Pass(x) == /\ f.unit_ref # NoUnit => x.unit_ref = f.unit_ref
                 /\ (by_lang /\ f.lang # None) => x.lang = f.lang
                 /\ (by_variant /\ f.variant # None) => x.variant = f.variant
  IN  SelectSeq(f.cands, Pass)

\* the result of the first step of the fallback chain that is not empty
FirstNonEmpty(f) ==
  IF Passing(f, TRUE, TRUE) # <<>> THEN Passing(f, TRUE, TRUE)
  ELSE IF Passing(f, TRUE, FALSE) # <<>> THEN Passing(f, TRUE, FALSE)
  ELSE Passing(f, FALSE, FALSE)

\* C14, one step: the document an update delivers
C14_Step ==
  (last' # <<>> /\ Delivered(last'[1].out) # <<>>)
  => LET f == FlowAtFinalize(user_data, last'[1].ev)
         doc == Delivered(last'[1].out)[1].doc[1]
     IN  /\ Len(Delivered(last'[1].out)) = 1
         /\ last'[1].ev.kind = "callback" => f.cands = user_data[1].cands
         /\ \E i \in DOMAIN f.cands : f.cands[i] = doc
         /\ FirstNonEmpty(f) # <<>>
         /\ doc = FirstNonEmpty(f)[1]

\* C14: the document finalize delivers is a row of the candidates stored in the
\* flow: the first row, in the order of the candidates, of the result of the
\* first step of the fallback chain that is not empty; of two rows with the same
\* unit, language and variant the earlier one is delivered.
C14_FirstOfStoredCandidates == [][C14_Step]_vars

\* C14 witness: a document was delivered that has a duplicate (same unit,
\* language and variant) later in the catalog
C14_Witness ==
  /\ last # <<>>
  /\ Delivered(last[1].out) # <<>>
  /\ LET doc == Delivered(last[1].out)[1].doc[1]
     IN  \E i \in DOMAIN CATALOG :
           /\ CATALOG[i] # doc
           /\ CATALOG[i].brand = doc.brand /\ CATALOG[i].model = doc.model
           /\ CATALOG[i].unit_ref = doc.unit_ref
           /\ CATALOG[i].lang = doc.lang /\ CATALOG[i].variant = doc.variant

\* C15, one step: a text message.  In the flow after the pre-set a slot holds the
\* value its detector finds in the text or, when it finds none, the value the
\* slot had before, so that no filled slot becomes unset; the flow that the
\* update leaves, if it leaves one, holds these values (a unit that is still
\* unset after the pre-set is for the unit step to fill).
C15_Step ==
  (last' # <<>> /\ last'[1].ev.kind = "text")
  => LET q == Strip(last'[1].ev.text)
         before == ensure_flow(user_data)[1]
         after == prefill(before, q)
     IN  /\ after.lang = IF detect_lang(q) # None THEN detect_lang(q) ELSE before.lang
         /\ after.variant =
              IF detect_variant(q) # None THEN detect_variant(q) ELSE before.variant
         /\ after.unit_ref =
              IF detect_unit_ref(q) # NoUnit THEN detect_unit_ref(q) ELSE before.unit_ref
         /\ before.lang # None => after.lang # None
         /\ before.variant # None => after.variant # None
         /\ before.unit_ref # NoUnit => after.unit_ref # NoUnit
         /\ user_data' # <<>> =>
              /\ user_data'[1].lang = after.lang
              /\ user_data'[1].variant = after.variant
              /\ after.unit_ref # NoUnit => user_data'[1].unit_ref = after.unit_ref

\* C15: the pre-fill of a new query changes a slot only when the detector of the
\* slot finds a value in the text; a slot whose detector finds nothing keeps the
\* value it had, also when the query comes while a question is awaited, and no
\* slot goes from filled to unset.
C15_PrefillKeepsSlots == [][C15_Step]_vars

\* C15 witness: a text that names no language came while a flow existed, and
\* the flow it leaves holds the new query and the language of before
C15_Witness ==
  /\ LastIs("text")
  /\ ~last[1].fresh
  /\ user_data # <<>>
  /\ detect_lang(LastQuery) = None
  /\ user_data[1].lang # None
  /\ user_data[1].query = LastQuery

\* the value flow f holds in a slot is unset
Unset(f, slot) ==
  CASE slot = "unit" -> f.unit_ref = NoUnit
    [] slot = "lang" -> f.lang = None
    [] slot = "variant" -> f.variant = None
    [] OTHER -> FALSE

\* the questions among the replies to the last update
Asks == IF last = <<>> THEN <<>>
        ELSE LET IsAsk(r) == r.type = "AskChoice" IN SelectSeq(last[1].out, IsAsk)

\* C16: a filled slot is never asked: whenever an update, of whatever kind and
\* in whatever order, is answered by a question for a slot, the flow holds no
\* value in that slot (a question stores nothing, so the flow the update leaves
\* is the flow at the moment of asking).
C16_FilledSlotNeverAsked ==
  \A a \in DOMAIN Asks :
    /\ user_data # <<>>
    /\ Unset(user_data[1], Asks[a].slot)

\* C16 witness: an answer was followed by the variant question, with the unit
\* and the language filled
C16_Witness ==
  /\ LastIs("callback")
  /\ Asks # <<>>
  /\ Asks[1].slot = "variant"
  /\ user_data # <<>>
  /\ user_data[1].unit_ref # NoUnit
  /\ user_data[1].lang # None

\* C17, one step.  A press leaves the candidates of the flow as they were (a
\* flow made for a press that found none has no candidates), and the press that
\* finalizes answers from these candidates alone: their first row passing the
\* filters, or "no document" when none passes, whatever the catalog holds.  A
\* text stores the candidates of its own query.
C17_Step ==
  /\ (last' # <<>> /\ last'[1].ev.kind = "callback")
     => LET f == ensure_flow(user_data)[1]
            d == last'[1].ev.data
            docs == FirstNonEmpty(Stored(f, d))
        IN  /\ user_data' # <<>> => user_data'[1].cands = f.cands
            /\ d.tag = CB_VAR =>
                 /\ user_data' = <<>>
                 /\ Outbound(last'[1].out) =
                      IF docs = <<>> THEN <<Fail("NoDocument")>> ELSE <<Deliver(docs[1])>>
            /\ d.tag # CB_VAR => Delivered(last'[1].out) = <<>>
  /\ (last' # <<>> /\ last'[1].ev.kind = "text" /\ user_data' # <<>>)
     => user_data'[1].cands = candidates_for_query(Strip(last'[1].ev.text)).cands

\* C17: the candidates of a flow are written only when a text is resolved:
\* every answer leaves them unchanged, and finalize filters the stored
\* candidates without going back to the catalog.
C17_CandidatesWrittenByQueryOnly == [][C17_Step]_vars

\* C17 witness: an answer stored a unit that rows of the catalog have and no
\* candidate has, and the flow it leaves holds the candidates of before
C17_Witness ==
  /\ LastIs("callback")
  /\ user_data # <<>>
  /\ user_data[1].cands # <<>>
  /\ user_data[1].unit_ref \in UnitRefs(CATALOG)
  /\ user_data[1].unit_ref \notin UnitRefs(user_data[1].cands)

\* C18, one step: the document an update delivers, against the flow that
\* finalize saw
C18_Step ==
  (last' # <<>> /\ Delivered(last'[1].out) # <<>>)
  => LET f == FlowAtFinalize(user_data, last'[1].ev)
         doc == Delivered(last'[1].out)[1].doc[1]
     IN  /\ f.unit_ref # NoUnit => doc.unit_ref = f.unit_ref
         /\ (/\ f.unit_ref # NoUnit
             /\ f.lang # None
             /\ \E i \in DOMAIN f.cands : /\ f.cands[i].unit_ref = f.unit_ref
                                          /\ f.cands[i].lang = f.lang)
            => doc.lang = f.lang

\* C18: the fallback chain never relaxes the unit: a delivered document has the
\* unit of the flow, when the flow has one, and it has the language of the flow
\* whenever some candidate has that unit and that language; only the variant
\* may differ.
C18_UnitNeverRelaxed == [][C18_Step]_vars

\* C18 witness: the answer to the variant question was followed by a document
\* of another variant
C18_Witness ==
  /\ LastIs("callback")
  /\ last[1].ev.data.tag = CB_VAR
  /\ Delivered(last[1].out) # <<>>
  /\ Delivered(last[1].out)[1].doc[1].variant # last[1].ev.data.choice

\* C19: every text message is answered by exactly one reply: a question for one
\* slot, which leaves the flow with that slot as its stage, or a document or a
\* failure, which leave no flow; never two questions, never nothing.
C19_OneReplyPerQuery ==
  LastIs("text") =>
    /\ Len(last[1].out) = 1
    /\ \/ /\ last[1].out[1].type = "AskChoice"
          /\ last[1].out[1].slot \in {"unit", "lang", "variant"}
          /\ user_data # <<>>
          /\ user_data[1].stage = last[1].out[1].slot
          /\ last[1].out[1].choices \in keyboards
       \/ /\ last[1].out[1].type \in {"Deliver", "Fail"}
          /\ user_data = <<>>

\* C19 witness: a text that came while a flow existed was answered by the
\* variant question alone, unit and language being filled
C19_Witness ==
  /\ LastIs("text")
  /\ ~last[1].fresh
  /\ Asks # <<>>
  /\ Asks[1].slot = "variant"
  /\ user_data # <<>>
  /\ user_data[1].stage = "variant"

=============================================================================
